---- MODULE Spec2Model ----
(***************************************************************************)
(* Model of BTC_Addresses_Graph.py: the paging fetcher                     *)
(* (fetch_txs_blockchain_info), the edge extractor                         *)
(* (address_edges_from_txs) and the breadth-first crawler (crawl_graph).   *)
(*                                                                         *)
(* Amounts.  The program computes amounts as Python floats.  The model     *)
(* computes them as exact rationals <<numerator, denominator>> in lowest   *)
(* terms, so `value / 1e8` and `val / denom` are real divisions; the       *)
(* rounding of IEEE-754 doubles is not modelled.                           *)
(*                                                                         *)
(* Granularity.  One action per iteration of the `while` loop of           *)
(* crawl_graph, split by the path the iteration takes: SkipVisited (line   *)
(* 83), FetchFailed (line 92), Expand (lines 95-120); Return is the loop   *)
(* exit (line 122).  The ledger service is the environment: each fetch     *)
(* fails or returns any batch of LedgerBatches(addr).                      *)
(***************************************************************************)
EXTENDS Integers, Sequences, FiniteSets, TLC

VARIABLES
    MAX_NODES,     \* configured node cap (line 12)
    MAX_DEPTH,     \* configured depth (line 10)
    pc,            \* "loop" while crawl_graph runs, "done" once it returned,
                   \* "idle" when crawl_graph is not run
    G_nodes,       \* G: node set
    G_edges,       \* G: (u, v) -> weight attribute
    visited,       \* line 74
    q,             \* line 75: sequence of <<address, depth>>
    edge_w,        \* line 77
    node_amount,   \* line 78
    fetchLog,      \* history: every call of fetch_txs_blockchain_info, in order:
                   \* address, queue depth, ok or raised, transactions returned
    pushed,        \* history: every entry ever placed on q, in order
    extracted,     \* history: every triple returned by address_edges_from_txs
    ex_txs,        \* extractor run: the argument txs
    ex_edges,      \* extractor run: the returned list
    ex_pc,         \* extractor run: "idle" (none), "call" before, "ret" after
    limit_each,    \* fetcher run: parameter (line 20)
    max_txs,       \* fetcher run: parameter (line 20)
    fetch_txs,     \* fetcher run: the local list txs (line 22)
    offset,        \* fetcher run: line 23
    fetch_pc,      \* fetcher run: "idle" (none), "loop", "done", "raised"
    fetch_result,  \* fetcher run: the returned list
    service,       \* the address's history held by the service, most recent first
    arrived,       \* history: transactions the service received during the run
    requests,      \* history: the params of every page request, in order
    pages          \* history: the batch of every answered page request, in order

crawlVars == <<MAX_NODES, MAX_DEPTH, pc, G_nodes, G_edges, visited, q, edge_w,
               node_amount, fetchLog, pushed, extracted>>
exVars == <<ex_txs, ex_edges, ex_pc>>
fetchVars == <<limit_each, max_txs, fetch_txs, offset, fetch_pc, fetch_result,
               service, arrived, requests, pages>>
vars == <<MAX_NODES, MAX_DEPTH, pc, G_nodes, G_edges, visited, q, edge_w,
          node_amount, fetchLog, pushed, extracted, ex_txs, ex_edges, ex_pc,
          limit_each, max_txs, fetch_txs, offset, fetch_pc, fetch_result,
          service, arrived, requests, pages>>

----------------------------------------------------------------------------
(* Bounds and input sets *)

MaxInputs == 2       \* inputs per transaction given to the extractor
MaxOuts == 2         \* outputs per transaction given to the extractor
MaxNodesCap == 4     \* MAX_NODES ranges over 1..MaxNodesCap
MaxDepthCap == 2     \* MAX_DEPTH ranges over 0..MaxDepthCap
MaxTriples == 3      \* triples extracted in one crawl
MaxLimitEach == 2    \* small values of limit_each: 1..MaxLimitEach
MaxMaxTxs == 4       \* small values of max_txs: 0..MaxMaxTxs
MaxHistory == 5      \* small sizes of the address's history: 0..MaxHistory
MaxArrivals == 1     \* transactions the service may receive during one fetch

Addr == {"A", "B", "C", "D"}
NoAddr == ""         \* a missing, None or empty "addr"
START_ADDRESS == "A"
SatPerBtc == 100000000

SeqsUpTo(S, n) == UNION {[1..k -> S] : k \in 0..n}

\* What the extractor is given: each input resolves to an address or to none;
\* each output has an address or none and a "value" in satoshi (0 also models
\* a missing value).
ExtractInputs == {"A", "C", NoAddr}
ExtractOuts ==
    [addr : {"B", "C"}, value : {0, 100000000, 200000000}]
        \cup {[addr |-> NoAddr, value |-> 100000000]}

TxUniverse == [inputs : SeqsUpTo(ExtractInputs, MaxInputs), out : SeqsUpTo(ExtractOuts, MaxOuts)]

\* Transactions that may precede another one in an extractor batch: one that
\* yields triples, one without resolvable input, one without qualifying output.
PrefixTxs ==
    {[inputs |-> <<"B">>, out |-> <<[addr |-> "C", value |-> 100000000]>>],
     [inputs |-> <<NoAddr>>, out |-> <<[addr |-> "C", value |-> 100000000]>>],
     [inputs |-> <<"B">>, out |-> <<[addr |-> "C", value |-> 0]>>]}

ExtractBatches ==
    {<<>>} \cup {<<t>> : t \in TxUniverse} \cup {<<s, t>> : s \in PrefixTxs, t \in TxUniverse}

----------------------------------------------------------------------------
(* Exact arithmetic on amounts *)

RECURSIVE GCD(_, _)
GCD(a, b) == IF b = 0 THEN a ELSE GCD(b, a % b)

Norm(n, d) == LET g == GCD(n, d) IN <<n \div g, d \div g>>

Zero == <<0, 1>>

RAdd(x, y) ==
    LET g == GCD(x[2], y[2])
        l == (x[2] \div g) * y[2]
    IN Norm(x[1] * (l \div x[2]) + y[1] * (l \div y[2]), l)

RDiv(x, k) == Norm(x[1], x[2] * k)

RPos(x) == x[1] > 0

ToBtc(value) == Norm(value, SatPerBtc)

Max(a, b) == IF a >= b THEN a ELSE b

----------------------------------------------------------------------------
(* address_edges_from_txs, lines 38-66 *)

ResolvedInputsDistinct(tx) ==
    LET RECURSIVE Distinct(_)
        Distinct(s) ==
            IF s = <<>> THEN <<>>
            ELSE LET d == Distinct(SubSeq(s, 1, Len(s) - 1))
                 IN IF \E k \in DOMAIN d : d[k] = s[Len(s)] THEN d ELSE Append(d, s[Len(s)])
    IN Distinct(SelectSeq(tx.inputs, LAMBDA a : a # NoAddr))

\* lines 44-49: the addresses of the inputs that have one, in input order
ResolvedInputs(tx) == SelectSeq(tx.inputs, LAMBDA a : a # NoAddr)

KeepOutAnyValue(o) == o.addr # NoAddr

KeepOut(o) == o.addr # NoAddr /\ RPos(ToBtc(o.value))

PositiveOuts(tx) ==
    LET kept == SelectSeq(tx.out, KeepOut)
    IN [k \in 1..Len(kept) |-> <<kept[k].addr, ToBtc(kept[k].value)>>]

DenomOne(inputs) == 1

Denom(inputs) == Max(1, Len(inputs))

Weight(val, denom) == RDiv(val, denom)

EdgesOfTx(tx) ==
    LET inputs == ResolvedInputs(tx)
        outs == PositiveOuts(tx)
        denom == Denom(inputs)
        m == Len(outs)
    IN IF inputs = <<>> \/ outs = <<>>
       THEN <<>>
       ELSE [k \in 1..(Len(inputs) * m) |->
                LET in_a == inputs[((k - 1) \div m) + 1]
                    o == outs[((k - 1) % m) + 1]
                IN <<in_a, o[1], Weight(o[2], denom)>>]

RECURSIVE address_edges_from_txs(_)
address_edges_from_txs(txs) ==
    IF txs = <<>> THEN <<>>
    ELSE address_edges_from_txs(SubSeq(txs, 1, Len(txs) - 1)) \o EdgesOfTx(txs[Len(txs)])

----------------------------------------------------------------------------
(* The ledger service as seen by crawl_graph: what one successful call of   *)
(* fetch_txs_blockchain_info(addr) may return.  blockchain.info/rawaddr/addr *)
(* serves the transactions of addr: addr is among the inputs or the outputs  *)
(* of each of them.  A fetch returns no or one transaction, and the          *)
(* transactions of one crawl yield at most MaxTriples triples.               *)

LedgerShapes == {<<1, 1>>, <<1, 2>>, <<2, 1>>}     \* <<number of inputs, number of outputs>>
LedgerValues == {100000000}

LedgerTxs(addr) ==
    {t \in UNION {[inputs : [1..s[1] -> Addr],
                   out : [1..s[2] -> [addr : Addr, value : LedgerValues]]] : s \in LedgerShapes} :
        \/ \E i \in DOMAIN t.inputs : t.inputs[i] = addr
        \/ \E j \in DOMAIN t.out : t.out[j].addr = addr}

LedgerBatches(addr) ==
    {<<>>} \cup {<<t>> : t \in {x \in LedgerTxs(addr) :
                                  Len(extracted) + Len(EdgesOfTx(x)) <= MaxTriples}}

----------------------------------------------------------------------------
(* crawl_graph, lines 68-122 *)

EmptyMap == [k \in {} |-> Zero]

Range(s) == {s[k] : k \in DOMAIN s}

Orderings(S) ==
    {s \in [1..Cardinality(S) -> S] : \A i, j \in DOMAIN s : i # j => s[i] # s[j]}

AddToOverwrite(d, k, w) ==
    IF k \in DOMAIN d THEN [d EXCEPT ![k] = w] ELSE d @@ (k :> w)

\* d[k] += w on a defaultdict(float)
AddTo(d, k, w) ==
    IF k \in DOMAIN d THEN [d EXCEPT ![k] = RAdd(@, w)] ELSE d @@ (k :> RAdd(Zero, w))

\* lines 99-102: the accumulation loop over the extracted triples
RECURSIVE AccumEdgeW(_, _)
AccumEdgeW(edges, ew) ==
    IF edges = <<>> THEN ew
    ELSE AccumEdgeW(Tail(edges), AddTo(ew, <<Head(edges)[1], Head(edges)[2]>>, Head(edges)[3]))

RECURSIVE AccumNodeAmountSourceOnly(_, _)
AccumNodeAmountSourceOnly(edges, na) ==
    IF edges = <<>> THEN na
    ELSE AccumNodeAmountSourceOnly(Tail(edges), AddTo(na, Head(edges)[1], Head(edges)[3]))

RECURSIVE AccumNodeAmount(_, _)
AccumNodeAmount(edges, na) ==
    IF edges = <<>> THEN na
    ELSE AccumNodeAmount(Tail(edges),
                         AddTo(AddTo(na, Head(edges)[1], Head(edges)[3]),
                               Head(edges)[2], Head(edges)[3]))

MayExpandInclusive(depth, maxDepth) == depth <= maxDepth

\* line 103
MayExpand(depth, maxDepth) == depth < maxDepth

NeighbourSource(e) == e[1]

\* line 105: neigh_to_enqueue.add(v) for the triple (u, v, w)
Neighbour(e) == e[2]

NeighToEnqueueAnyDepth(edges, depth, maxDepth) == {Neighbour(e) : e \in Range(edges)}

\* lines 103-105
NeighToEnqueue(edges, depth, maxDepth) ==
    {Neighbour(e) : e \in {x \in Range(edges) : MayExpand(depth, maxDepth)}}

WriteNodesKnownOnly(nodes, ew) == nodes

\* lines 108-112: the nodes of G after the write loop
WriteNodes(nodes, ew) == nodes \cup {p[1] : p \in DOMAIN ew} \cup {p[2] : p \in DOMAIN ew}

WriteEdgesNewOnly(gedges, ew) ==
    [p \in DOMAIN gedges \cup DOMAIN ew |-> IF p \in DOMAIN gedges THEN gedges[p] ELSE ew[p]]

\* line 113: the edges of G after the write loop
WriteEdges(gedges, ew) ==
    [p \in DOMAIN gedges \cup DOMAIN ew |-> IF p \in DOMAIN ew THEN ew[p] ELSE gedges[p]]

AlreadyVisitedNever(addr, vis) == FALSE

\* line 82
AlreadyVisited(addr, vis) == addr \in vis

\* line 80
LoopGuard == q # <<>> /\ Cardinality(G_nodes) < MAX_NODES

PopLeftPeek(queue) == queue

\* line 81: the queue after q.popleft()
PopLeft(queue) == Tail(queue)

MarkVisitedNot(vis, addr) == vis

\* line 84: visited.add(addr)
MarkVisited(vis, addr) == vis \cup {addr}

NextDepthSame(depth) == depth

\* line 118: the depth of the entries appended while an entry of `depth` is processed
NextDepth(depth) == depth + 1

AddNodeNot(nodes, addr) == nodes

\* line 85: G.add_node(addr)
AddNode(nodes, addr) == nodes \cup {addr}

EnqueueFront(queue, new) == new \o queue

\* line 118: q.append
Enqueue(queue, new) == queue \o new

\* line 117
MayEnqueue(nb, vis, nodes, maxNodes) == nb \notin vis /\ Cardinality(nodes) < maxNodes

CrawlInit ==
    /\ MAX_NODES \in 1..MaxNodesCap
    /\ MAX_DEPTH \in 0..MaxDepthCap
    /\ pc = "loop"
    /\ G_nodes = {}
    /\ G_edges = EmptyMap
    /\ visited = {}
    /\ q = <<<<START_ADDRESS, 0>>>>
    /\ edge_w = EmptyMap
    /\ node_amount = EmptyMap
    /\ fetchLog = <<>>
    /\ pushed = <<<<START_ADDRESS, 0>>>>
    /\ extracted = <<>>

\* lines 80-83: the dequeued address was expanded before
SkipVisited ==
    /\ pc = "loop"
    /\ LoopGuard
    /\ AlreadyVisited(Head(q)[1], visited)
    /\ q' = PopLeft(q)
    /\ UNCHANGED <<MAX_NODES, MAX_DEPTH, pc, G_nodes, G_edges, visited, edge_w,
                   node_amount, fetchLog, pushed, extracted>>

\* the exception of the fetch leaves crawl_graph
FetchFailedAborts ==
    /\ pc = "loop"
    /\ LoopGuard
    /\ ~AlreadyVisited(Head(q)[1], visited)
    /\ q' = PopLeft(q)
    /\ visited' = MarkVisited(visited, Head(q)[1])
    /\ G_nodes' = AddNode(G_nodes, Head(q)[1])
    /\ fetchLog' = Append(fetchLog, [addr |-> Head(q)[1], depth |-> Head(q)[2], ok |-> FALSE,
                                          txs |-> <<>>])
    /\ pc' = "raised"
    /\ UNCHANGED <<MAX_NODES, MAX_DEPTH, G_edges, edge_w, node_amount, pushed, extracted>>

\* lines 80-92: the fetch raises
FetchFailed ==
    /\ pc = "loop"
    /\ LoopGuard
    /\ ~AlreadyVisited(Head(q)[1], visited)
    /\ q' = PopLeft(q)
    /\ visited' = MarkVisited(visited, Head(q)[1])
    /\ G_nodes' = AddNode(G_nodes, Head(q)[1])
    /\ fetchLog' = Append(fetchLog, [addr |-> Head(q)[1], depth |-> Head(q)[2], ok |-> FALSE,
                                          txs |-> <<>>])
    /\ UNCHANGED <<MAX_NODES, MAX_DEPTH, pc, G_edges, edge_w, node_amount, pushed, extracted>>

\* lines 80-120: the fetch returns txs
Expand ==
    /\ pc = "loop"
    /\ LoopGuard
    /\ ~AlreadyVisited(Head(q)[1], visited)
    /\ \E txs \in LedgerBatches(Head(q)[1]) :
         LET addr == Head(q)[1]
             depth == Head(q)[2]
             edges == address_edges_from_txs(txs)
             ew == AccumEdgeW(edges, edge_w)
             nodes == WriteNodes(AddNode(G_nodes, addr), ew)
             vis == MarkVisited(visited, addr)
             nbs == {nb \in NeighToEnqueue(edges, depth, MAX_DEPTH) :
                        MayEnqueue(nb, vis, nodes, MAX_NODES)}
         IN /\ fetchLog' = Append(fetchLog, [addr |-> addr, depth |-> depth, ok |-> TRUE,
                                          txs |-> txs])
            /\ visited' = vis
            /\ extracted' = extracted \o edges
            /\ edge_w' = ew
            /\ node_amount' = AccumNodeAmount(edges, node_amount)
            /\ G_nodes' = nodes
            /\ G_edges' = WriteEdges(G_edges, ew)
            /\ \E order \in Orderings(nbs) :
                 LET new == [k \in 1..Len(order) |-> <<order[k], NextDepth(depth)>>]
                 IN /\ q' = Enqueue(PopLeft(q), new)
                    /\ pushed' = pushed \o new
    /\ UNCHANGED <<MAX_NODES, MAX_DEPTH, pc>>

\* line 122: the loop condition is false
Return ==
    /\ pc = "loop"
    /\ ~LoopGuard
    /\ pc' = "done"
    /\ UNCHANGED <<MAX_NODES, MAX_DEPTH, G_nodes, G_edges, visited, q, edge_w,
                   node_amount, fetchLog, pushed, extracted>>

\* no run of fetch_txs_blockchain_info on its own
FetchIdle ==
    /\ limit_each = 1
    /\ max_txs = 0
    /\ fetch_txs = <<>>
    /\ offset = 0
    /\ fetch_pc = "idle"
    /\ fetch_result = <<>>
    /\ service = <<>>
    /\ arrived = 0
    /\ requests = <<>>
    /\ pages = <<>>

Init ==
    /\ CrawlInit
    /\ ex_txs = <<>>
    /\ ex_edges = <<>>
    /\ ex_pc = "idle"
    /\ FetchIdle

Next ==
    \/ SkipVisited /\ UNCHANGED exVars /\ UNCHANGED fetchVars
    \/ FetchFailed /\ UNCHANGED exVars /\ UNCHANGED fetchVars
    \/ Expand /\ UNCHANGED exVars /\ UNCHANGED fetchVars
    \/ Return /\ UNCHANGED exVars /\ UNCHANGED fetchVars

Spec == Init /\ [][Next]_vars

\* crawl_graph is one sequential loop: the iteration or the return that is
\* possible is eventually executed (every fetch returns or raises, the
\* request of line 27 has a timeout).
SpecFair == Spec /\ WF_vars(Next)

----------------------------------------------------------------------------
(* address_edges_from_txs run on its own: any batch of ExtractBatches *)

ExtractInit ==
    /\ MAX_NODES = 1
    /\ MAX_DEPTH = 0
    /\ pc = "idle"
    /\ G_nodes = {}
    /\ G_edges = EmptyMap
    /\ visited = {}
    /\ q = <<>>
    /\ edge_w = EmptyMap
    /\ node_amount = EmptyMap
    /\ fetchLog = <<>>
    /\ pushed = <<>>
    /\ extracted = <<>>
    /\ ex_txs \in ExtractBatches
    /\ ex_edges = <<>>
    /\ ex_pc = "call"
    /\ FetchIdle

ExtractCall ==
    /\ ex_pc = "call"
    /\ ex_edges' = address_edges_from_txs(ex_txs)
    /\ ex_pc' = "ret"
    /\ UNCHANGED ex_txs
    /\ UNCHANGED crawlVars
    /\ UNCHANGED fetchVars

SpecExtract == ExtractInit /\ [][ExtractCall]_vars

----------------------------------------------------------------------------
(* fetch_txs_blockchain_info run on its own, lines 20-36.  The service holds *)
(* the history of the address, most recent first, as transaction numbers; a  *)
(* page request returns the slice [offset, offset + limit) of it, or fails.  *)
(* New transactions may reach the service between two page requests.         *)

PageCap == 50        \* line 26: the provider's largest page

Min(a, b) == IF a <= b THEN a ELSE b

LimitEachValues == (1..MaxLimitEach) \cup {PageCap, PageCap + 1}
MaxTxsValues == (0..MaxMaxTxs) \cup {PageCap, 2 * PageCap}
\* the sizes of the history tried with pages of p: small ones, one short of a
\* page, one full page, two full pages and one more
HistorySizes(p) == (0..MaxHistory) \cup {p - 1, p, 2 * p + 1}

\* a history of n transactions, most recent first: n, n - 1, ..., 1
History(n) == [k \in 1..n |-> n + 1 - k]

\* line 26: params["limit"]
PageLimit(limitEach) == Min(limitEach, PageCap)

\* the service's answer to a page request
ServePage(held, limit, off) == SubSeq(held, off + 1, Min(off + limit, Len(held)))

TruncateNot(list, n) == list

\* line 36: txs[:max_txs], max_txs >= 0
Truncate(list, n) == SubSeq(list, 1, Min(n, Len(list)))

\* line 24
FetchLoopGuard == Len(fetch_txs) < max_txs

\* line 32
ShortPage(batch, limit) == Len(batch) < limit

FetchInit ==
    /\ MAX_NODES = 1
    /\ MAX_DEPTH = 0
    /\ pc = "idle"
    /\ G_nodes = {}
    /\ G_edges = EmptyMap
    /\ visited = {}
    /\ q = <<>>
    /\ edge_w = EmptyMap
    /\ node_amount = EmptyMap
    /\ fetchLog = <<>>
    /\ pushed = <<>>
    /\ extracted = <<>>
    /\ ex_txs = <<>>
    /\ ex_edges = <<>>
    /\ ex_pc = "idle"
    /\ limit_each \in LimitEachValues
    /\ max_txs \in MaxTxsValues
    /\ fetch_txs = <<>>
    /\ offset = 0
    /\ fetch_pc = "loop"
    /\ fetch_result = <<>>
    /\ service \in {History(n) : n \in HistorySizes(Min(limit_each, PageCap))}
    /\ arrived = 0
    /\ requests = <<>>
    /\ pages = <<>>

\* lines 24-35: one iteration of the loop, the request answered
FetchPage ==
    /\ fetch_pc = "loop"
    /\ FetchLoopGuard
    /\ LET limit == PageLimit(limit_each)
           batch == ServePage(service, limit, offset)
       IN /\ requests' = Append(requests, [limit |-> limit, offset |-> offset])
          /\ pages' = Append(pages, batch)
          /\ fetch_txs' = fetch_txs \o batch
          /\ IF ShortPage(batch, limit)
             THEN /\ fetch_pc' = "done"
                  /\ fetch_result' = Truncate(fetch_txs \o batch, max_txs)
                  /\ UNCHANGED offset
             ELSE /\ offset' = offset + limit
                  /\ UNCHANGED <<fetch_pc, fetch_result>>
    /\ UNCHANGED <<limit_each, max_txs, service, arrived>>
    /\ UNCHANGED crawlVars
    /\ UNCHANGED exVars

\* lines 27-29: the request, raise_for_status or the decoding raises
FetchPageRaises ==
    /\ fetch_pc = "loop"
    /\ FetchLoopGuard
    /\ requests' = Append(requests, [limit |-> PageLimit(limit_each), offset |-> offset])
    /\ fetch_pc' = "raised"
    /\ UNCHANGED <<limit_each, max_txs, fetch_txs, offset, fetch_result, service, arrived, pages>>
    /\ UNCHANGED crawlVars
    /\ UNCHANGED exVars

\* lines 24, 36: the loop condition is false
FetchReturn ==
    /\ fetch_pc = "loop"
    /\ ~FetchLoopGuard
    /\ fetch_pc' = "done"
    /\ fetch_result' = Truncate(fetch_txs, max_txs)
    /\ UNCHANGED <<limit_each, max_txs, fetch_txs, offset, service, arrived, requests, pages>>
    /\ UNCHANGED crawlVars
    /\ UNCHANGED exVars

\* the environment: the address gets a new transaction while the fetch runs
NewTransaction ==
    /\ fetch_pc = "loop"
    /\ arrived < MaxArrivals
    /\ service' = <<Len(service) + 1>> \o service
    /\ arrived' = arrived + 1
    /\ UNCHANGED <<limit_each, max_txs, fetch_txs, offset, fetch_pc, fetch_result, requests, pages>>
    /\ UNCHANGED crawlVars
    /\ UNCHANGED exVars

FetchNext == FetchPage \/ FetchPageRaises \/ FetchReturn \/ NewTransaction

SpecFetch == FetchInit /\ [][FetchNext]_vars

----------------------------------------------------------------------------
(* Claims about fetch_txs_blockchain_info (specification SpecFetch) *)

RECURSIVE Flatten(_)
Flatten(ss) == IF ss = <<>> THEN <<>> ELSE Flatten(SubSeq(ss, 1, Len(ss) - 1)) \o ss[Len(ss)]

\* C11: the fetcher returns at most max_txs transactions, in the order the
\* pages delivered them; it requests pages at offsets 0, p, 2p, ... with
\* p = min(limit_each, 50); it sends no request once max_txs transactions are
\* collected or a page came back with fewer than p records; and from a service
\* whose history of T transactions did not change during the run it returns
\* the first min(T, max_txs) transactions.
C11_FetchPagesUpToMax ==
    LET p == IF limit_each <= 50 THEN limit_each ELSE 50
    IN /\ \A k \in DOMAIN requests :
            /\ requests[k].limit = p
            /\ requests[k].offset = (k - 1) * p
            /\ (k - 1) * p < max_txs
            /\ \A j \in 1..(k - 1) : j \in DOMAIN pages /\ Len(pages[j]) = p
       /\ fetch_pc = "done" =>
            /\ Len(fetch_result) <= max_txs
            /\ Len(fetch_result) = Min(max_txs, Len(Flatten(pages)))
            /\ fetch_result = SubSeq(Flatten(pages), 1, Len(fetch_result))
            /\ arrived = 0 =>
                 LET n == IF Len(service) <= max_txs THEN Len(service) ELSE max_txs
                 IN fetch_result = [k \in 1..n |-> service[k]]

\* Pages of 2 against a history of 5 with max_txs = 3: two full pages were
\* collected and the fourth transaction was cut off.
C11_Witness ==
    /\ fetch_pc = "done"
    /\ arrived = 0
    /\ limit_each = 2
    /\ max_txs = 3
    /\ Len(service) = 5
    /\ Len(requests) = 2
    /\ Len(fetch_txs) = 4
    /\ fetch_result = <<5, 4, 3>>

----------------------------------------------------------------------------
(* Claims about crawl_graph (specification Spec) *)

\* C1: the number of nodes of G never exceeds MAX_NODES.
C1_NodeCountWithinCap == Cardinality(G_nodes) <= MAX_NODES

\* C2: no address is fetched more than once in a run, however often it was
\* put on the frontier and whether its fetch succeeded or failed.
C2_FetchedAtMostOnce ==
    \A i, j \in DOMAIN fetchLog : i # j => fetchLog[i].addr # fetchLog[j].addr

\* An address was put on the frontier twice, its fetch failed, and both
\* entries have been dequeued.
C2_Witness ==
    /\ pc = "done"
    /\ q = <<>>
    /\ \E i, j \in DOMAIN pushed, k \in DOMAIN fetchLog :
         /\ i # j
         /\ pushed[i][1] = pushed[j][1]
         /\ fetchLog[k].addr = pushed[i][1]
         /\ ~fetchLog[k].ok

\* C3: every entry ever placed on the frontier has 0 <= depth <= MAX_DEPTH, and
\* no address is fetched at a depth greater than MAX_DEPTH.
C3_DepthWithinMax ==
    /\ \A k \in DOMAIN pushed : 0 <= pushed[k][2] /\ pushed[k][2] <= MAX_DEPTH
    /\ \A k \in DOMAIN fetchLog : fetchLog[k].depth <= MAX_DEPTH

\* An address fetched at depth MAX_DEPTH >= 1 has an edge to an address that
\* was never expanded although the cap was never reached.
C3_Witness ==
    /\ pc = "done"
    /\ MAX_DEPTH >= 1
    /\ Cardinality(G_nodes) < MAX_NODES
    /\ \E k \in DOMAIN fetchLog, p \in DOMAIN edge_w :
         /\ fetchLog[k].ok
         /\ fetchLog[k].depth = MAX_DEPTH
         /\ p[1] = fetchLog[k].addr
         /\ p[2] \notin visited

\* The three paths of one loop iteration.
Iterate == SkipVisited \/ FetchFailed \/ Expand

\* A step in which a fetch failed.
FailStep == Len(fetchLog') = Len(fetchLog) + 1 /\ ~fetchLog'[Len(fetchLog')].ok

\* C4: a failed fetch for the dequeued address X does not abort the crawl: X is
\* visited and a node of G, nothing is attributed to it, and the loop stays
\* able to process the next frontier entry while one remains below the cap.
C4_FetchFailureIsLocal ==
    /\ [][FailStep =>
            /\ pc' = "loop"
            /\ Head(q)[1] \in visited'
            /\ Head(q)[1] \in G_nodes'
            /\ fetchLog'[Len(fetchLog')].addr = Head(q)[1]
            /\ edge_w' = edge_w
            /\ extracted' = extracted
            /\ q' = Tail(q)]_vars
    /\ []((pc = "loop" /\ q # <<>> /\ Cardinality(G_nodes) < MAX_NODES)
            => ENABLED (Iterate /\ UNCHANGED exVars /\ UNCHANGED fetchVars))

\* A fetch failed and a later frontier entry was fetched after it.
C4_Witness ==
    \E k \in DOMAIN fetchLog : ~fetchLog[k].ok /\ k < Len(fetchLog)

\* C5: with MAX_DEPTH = 0 only the seed is fetched, exactly once, and the
\* frontier never receives an entry other than the initial (seed, 0).
C5_DepthZeroFetchesSeedOnly ==
    MAX_DEPTH = 0 =>
        /\ pushed = <<<<START_ADDRESS, 0>>>>
        /\ Len(fetchLog) <= 1
        /\ \A k \in DOMAIN fetchLog : fetchLog[k].addr = START_ADDRESS
        /\ pc = "done" => Len(fetchLog) = 1

\* MAX_DEPTH = 0, the seed's transactions gave an edge to another address and
\* the cap was not reached.
C5_Witness ==
    /\ MAX_DEPTH = 0
    /\ pc = "done"
    /\ Cardinality(G_nodes) < MAX_NODES
    /\ \E p \in DOMAIN edge_w : p[2] # START_ADDRESS

----------------------------------------------------------------------------
(* Claims about address_edges_from_txs (specification SpecExtract) *)

\* equality of two amounts given as fractions, by cross-multiplication
SameAmount(x, y) == x[1] * y[2] = y[1] * x[2]

RECURSIVE SumAmounts(_)
SumAmounts(ws) == IF ws = <<>> THEN <<0, 1>> ELSE RAdd(ws[Len(ws)], SumAmounts(SubSeq(ws, 1, Len(ws) - 1)))

\* positions of the resolvable inputs and of the qualifying outputs of tx
InputIdx(tx) == {i \in DOMAIN tx.inputs : tx.inputs[i] # NoAddr}
OutputIdx(tx) == {j \in DOMAIN tx.out : tx.out[j].addr # NoAddr /\ tx.out[j].value > 0}

\* the k-th smallest element of a set of positions
RECURSIVE Nth(_, _)
Nth(S, k) ==
    LET m == CHOOSE x \in S : \A y \in S : x <= y
    IN IF k = 1 THEN m ELSE Nth(S \ {m}, k - 1)

PairCount(tx) == Cardinality(InputIdx(tx)) * Cardinality(OutputIdx(tx))

\* number of triples due to the transactions before position k of the batch
RECURSIVE Offset(_, _)
Offset(txs, k) == IF k <= 1 THEN 0 ELSE Offset(txs, k - 1) + PairCount(txs[k - 1])

\* the part of the returned list that belongs to the k-th transaction
Segment(k) == SubSeq(ex_edges, Offset(ex_txs, k) + 1, Offset(ex_txs, k + 1))

WithEdges(txs) == SelectSeq(txs, LAMBDA tx : PairCount(tx) > 0)

\* C7: a transaction without resolvable input, or without an output that has
\* an address and a positive value, yields no triple; a zero-value output is
\* never the destination of a triple.
C7_NothingFromUnresolvable ==
    ex_pc = "ret" =>
        /\ WithEdges(ex_txs) = <<>> => ex_edges = <<>>
        /\ Len(ex_edges) = Offset(ex_txs, Len(ex_txs) + 1)
        /\ ex_edges = address_edges_from_txs(WithEdges(ex_txs))
        /\ \A e \in Range(ex_edges) :
             /\ e[3][1] > 0
             /\ \E k \in DOMAIN ex_txs : \E j \in OutputIdx(ex_txs[k]) : ex_txs[k].out[j].addr = e[2]

\* A batch whose first transaction has no resolvable input and whose second
\* has a zero-value output next to a positive one.
C7_Witness ==
    /\ ex_pc = "ret"
    /\ Len(ex_txs) = 2
    /\ InputIdx(ex_txs[1]) = {}
    /\ OutputIdx(ex_txs[1]) # {}
    /\ \E j \in DOMAIN ex_txs[2].out :
         /\ ex_txs[2].out[j].value = 0
         /\ ex_txs[2].out[j].addr = "C"
    /\ Len(ex_edges) = 1
    /\ ex_edges[1][2] = "B"

----------------------------------------------------------------------------
(* Claims about the accumulators and the graph (specification Spec) *)

Get(d, k) == IF k \in DOMAIN d THEN d[k] ELSE <<0, 1>>

\* the positions of the logged triples whose pair is p
TriplesOf(log, p) == {k \in DOMAIN log : <<log[k][1], log[k][2]>> = p}

\* the sum of the weights logged at the positions K, latest first
RECURSIVE SumAt(_, _)
SumAt(log, K) ==
    IF K = {} THEN <<0, 1>>
    ELSE LET m == CHOOSE x \in K : \A y \in K : x >= y
         IN RAdd(log[m][3], SumAt(log, K \ {m}))

SetSum(d, S) ==
    LET RECURSIVE Go(_)
        Go(T) == IF T = {} THEN <<0, 1>>
                 ELSE LET x == CHOOSE y \in T : TRUE IN RAdd(Get(d, x), Go(T \ {x}))
    IN Go(S)

C10_EdgeEndpointsAreNodes ==
    \A p \in DOMAIN G_edges : p[1] \in G_nodes /\ p[2] \in G_nodes

\* G has an edge between two addresses that were never expanded.
C10_Witness ==
    \E p \in DOMAIN G_edges : p[1] \notin visited /\ p[2] \notin visited /\ p[1] # p[2]

----------------------------------------------------------------------------
(* Claims about the frontier of crawl_graph (specification Spec) *)

\* the position of the first entry for address a in the list of entries
FirstEntry(entries, a) ==
    CHOOSE k \in DOMAIN entries :
        entries[k][1] = a /\ \A j \in 1..(k - 1) : entries[j][1] # a

\* the entries dequeued so far: those pushed that are no longer queued
Dequeued == SubSeq(pushed, 1, Len(pushed) - Len(q))

\* C12: addresses are expanded in the order their first frontier entry was
\* enqueued: the queue is the tail of the entries enqueued so far, the depths
\* of successively dequeued entries are non-decreasing, and the depths of the
\* queued entries are non-decreasing from head to tail and differ by at most 1.
C12_StrictFifo ==
    /\ Len(q) <= Len(pushed)
    /\ q = SubSeq(pushed, Len(pushed) - Len(q) + 1, Len(pushed))
    /\ \A i, j \in DOMAIN fetchLog :
         i < j => FirstEntry(pushed, fetchLog[i].addr) < FirstEntry(pushed, fetchLog[j].addr)
    /\ \A k \in DOMAIN fetchLog :
         fetchLog[k].depth = pushed[FirstEntry(pushed, fetchLog[k].addr)][2]
    /\ \A i, j \in DOMAIN Dequeued : i < j => Dequeued[i][2] <= Dequeued[j][2]
    /\ \A i, j \in DOMAIN q : i < j => q[i][2] <= q[j][2] /\ q[j][2] <= q[i][2] + 1

\* The queue holds entries of two depths, behind an address that was enqueued
\* again after its first entry.
C12_Witness ==
    /\ pc = "loop"
    /\ Len(q) >= 2
    /\ q[1][2] = 1
    /\ q[Len(q)][2] = 2
    /\ \E k \in DOMAIN q : k > 1 /\ q[k][1] = q[1][1]

\* a is not the seed and occurs among the extracted triples as a source only
SourceOnly(a) ==
    /\ a # START_ADDRESS
    /\ \E k \in DOMAIN extracted : extracted[k][1] = a
    /\ \A k \in DOMAIN extracted : extracted[k][2] # a

SourceOnlyNeverQueued ==
    \A a \in Addr :
        SourceOnly(a) =>
            /\ \A k \in DOMAIN pushed : pushed[k][1] # a
            /\ \A k \in DOMAIN fetchLog : fetchLog[k].addr # a

\* C13: every entry appended to the frontier while an address is processed at
\* depth d is (v, d + 1) with d < MAX_DEPTH, v the destination of a triple
\* extracted from that address's batch and not visited, and is appended while
\* G has fewer than MAX_NODES nodes; an address that is not the seed and
\* occurs only as a source of the extracted triples is never enqueued and
\* never fetched.
C13_OnlyDestinationsEnqueued ==
    [][/\ Len(pushed') >= Len(pushed)
       /\ SubSeq(pushed', 1, Len(pushed)) = pushed
       /\ \A k \in (Len(pushed) + 1)..Len(pushed') :
            /\ q # <<>>
            /\ Len(fetchLog') = Len(fetchLog) + 1
            /\ fetchLog'[Len(fetchLog')].addr = Head(q)[1]
            /\ fetchLog'[Len(fetchLog')].ok
            /\ Head(q)[2] < MAX_DEPTH
            /\ pushed'[k] = <<pushed'[k][1], Head(q)[2] + 1>>
            /\ \E t \in (Len(extracted) + 1)..Len(extracted') :
                 extracted'[t][2] = pushed'[k][1]
            /\ pushed'[k][1] \notin visited'
            /\ Cardinality(G_nodes') < MAX_NODES
       /\ SourceOnlyNeverQueued']_vars

\* The crawl ended below the cap after it enqueued and fetched a destination
\* at depth 1 or more, and a co-spender that is no destination was left
\* unfetched.
C13_Witness ==
    /\ pc = "done"
    /\ Cardinality(G_nodes) < MAX_NODES
    /\ \E k \in DOMAIN fetchLog : fetchLog[k].depth >= 1 /\ fetchLog[k].depth < MAX_DEPTH
    /\ \E a \in Addr : SourceOnly(a) /\ a \in G_nodes /\ a \notin visited

----------------------------------------------------------------------------
(* Claims about the triples of one transaction (specification SpecExtract) *)

\* the satoshi of the outputs of tx at the positions J
RECURSIVE SumValues(_, _)
SumValues(tx, J) ==
    IF J = {} THEN 0
    ELSE LET j == CHOOSE x \in J : TRUE IN tx.out[j].value + SumValues(tx, J \ {j})

----------------------------------------------------------------------------
(* Claims about the loop of crawl_graph (specification Spec) *)

\* C15: at the end of every loop iteration and when crawl_graph returns, the
\* edges of G are exactly the pairs of edge_w and the weight of each edge is
\* the current edge_w of its pair, also after an iteration whose fetch failed.
C15_GraphEdgesMirrorEdgeW ==
    /\ DOMAIN G_edges = DOMAIN edge_w
    /\ \A p \in DOMAIN edge_w : G_edges[p] = edge_w[p]

\* crawl_graph returned after two fetches added to the same pair and the last
\* fetch failed.
C15_Witness ==
    /\ pc = "done"
    /\ Len(fetchLog) >= 3
    /\ ~fetchLog[Len(fetchLog)].ok
    /\ \E p \in DOMAIN edge_w : Cardinality(TriplesOf(extracted, p)) = 2 /\ edge_w[p] = <<2, 1>>

\* C16: an iteration whose fetch fails adds the dequeued address to visited
\* and to the nodes of G and removes that one entry from the frontier; edge_w,
\* node_amount, the edges of G and the rest of the frontier are unchanged and
\* nothing is enqueued.
C16_FailedFetchFrame ==
    [][FailStep =>
         /\ q # <<>>
         /\ visited' = visited \cup {Head(q)[1]}
         /\ G_nodes' = G_nodes \cup {Head(q)[1]}
         /\ q' = Tail(q)
         /\ pushed' = pushed
         /\ edge_w' = edge_w
         /\ node_amount' = node_amount
         /\ G_edges' = G_edges
         /\ MAX_NODES' = MAX_NODES
         /\ MAX_DEPTH' = MAX_DEPTH]_vars

\* The fetch of an address below MAX_DEPTH failed after edges were
\* accumulated, and other entries stayed queued.
C16_Witness ==
    /\ pc = "loop"
    /\ Len(fetchLog) >= 2
    /\ ~fetchLog[Len(fetchLog)].ok
    /\ fetchLog[Len(fetchLog)].depth < MAX_DEPTH
    /\ DOMAIN edge_w # {}
    /\ DOMAIN node_amount # {}
    /\ q # <<>>

\* C17: crawl_graph always terminates, and when it has returned the frontier
\* is empty or G has at least MAX_NODES nodes.
C17_Terminates ==
    /\ <>(pc = "done")
    /\ [](pc = "done" => (q = <<>> \/ Cardinality(G_nodes) >= MAX_NODES))

\* crawl_graph returned because of the cap: entries of unfetched addresses
\* are still queued.
C17_Witness ==
    /\ pc = "done"
    /\ q # <<>>
    /\ Cardinality(G_nodes) >= MAX_NODES
    /\ MAX_NODES >= 2
    /\ \E k \in DOMAIN q : q[k][1] \notin visited

\* C18: the number of addresses fetched, the size of visited, never exceeds
\* MAX_NODES, and every visited address is a node of G, also in runs where the
\* write loop takes the node count of G beyond MAX_NODES.
C18_VisitedWithinCapAndInGraph ==
    /\ Cardinality(visited) <= MAX_NODES
    /\ Cardinality(visited) = Len(fetchLog)
    /\ visited \subseteq G_nodes

\* The write loop took G beyond MAX_NODES when the second address was
\* fetched.
C18_Witness ==
    /\ pc = "done"
    /\ Cardinality(G_nodes) > MAX_NODES
    /\ Cardinality(visited) = 2
    /\ Cardinality(visited) = MAX_NODES - 1

----------------------------------------------------------------------------
(* Claims about the set of fetched addresses (specification Spec) *)

\* the destinations of the triples extracted from the transactions fetched
\* for a; none while a was not fetched
Successors(a) ==
    UNION {{e[2] : e \in Range(address_edges_from_txs(fetchLog[k].txs))} :
           k \in {j \in DOMAIN fetchLog : fetchLog[j].addr = a}}

\* the addresses within n steps of the seed
RECURSIVE Within(_)
Within(n) ==
    IF n = 0 THEN {START_ADDRESS}
    ELSE LET W == Within(n - 1) IN W \cup UNION {Successors(a) : a \in W}

\* the least number of steps from the seed to a, for a in Within(MAX_DEPTH)
Distance(a) == CHOOSE n \in 0..MAX_DEPTH : a \in Within(n) /\ \A m \in 0..(n - 1) : a \notin Within(m)

\* C19: when crawl_graph returns from a run in which the node count stayed
\* below MAX_NODES and no fetch failed, the fetched addresses are exactly those
\* within MAX_DEPTH steps of the seed, a step leading from a fetched address to
\* a destination of a triple extracted from its transactions, and each was
\* fetched at a queue depth equal to its least number of steps from the seed.
C19_FetchedIsReachableWithinDepth ==
    (/\ pc = "done"
     /\ Cardinality(G_nodes) < MAX_NODES
     /\ \A k \in DOMAIN fetchLog : fetchLog[k].ok)
    => /\ {fetchLog[k].addr : k \in DOMAIN fetchLog} = Within(MAX_DEPTH)
       /\ \A k \in DOMAIN fetchLog : fetchLog[k].depth = Distance(fetchLog[k].addr)

\* The seed pays B and C and B pays C: C was queued at depth 1 and at depth 2
\* and fetched at depth 1.
C19_Witness ==
    /\ pc = "done"
    /\ MAX_DEPTH = 2
    /\ Cardinality(G_nodes) < MAX_NODES
    /\ Len(fetchLog) = 3
    /\ \A k \in DOMAIN fetchLog : fetchLog[k].ok
    /\ \E i, j \in DOMAIN pushed, k \in DOMAIN fetchLog :
         /\ pushed[i][1] = pushed[j][1]
         /\ pushed[i][2] = 1
         /\ pushed[j][2] = 2
         /\ fetchLog[k].addr = pushed[i][1]
         /\ fetchLog[k].depth = 1

====
